---- MODULE Spec2Model ----
(***************************************************************************)
(* The registration handlers of the homeserver                             *)
(* (src/server/handlers/registration.rs): get_available and post_register, *)
(* run concurrently for several requests against one shared Store.         *)
(*                                                                         *)
(* A request is a record; its pc is the position of its handler future:    *)
(*   "idle"      no request has been delivered to the slot yet             *)
(*   "await"     get_available is suspended on check_username_exists       *)
(*   "done"      the handler returned (Ok response or MatrixError)         *)
(*   "panicked"  the handler hit unimplemented!() and unwound              *)
(***************************************************************************)
EXTENDS Integers, Sequences, FiniteSets

VARIABLES req, accounts

vars == <<req, accounts>>

\* Number of requests handled concurrently.
MaxRequests == 2

Reqs == 1..MaxRequests

----------------------------------------------------------------------------
\* Usernames, as sequences of characters.

\* Longest localpart the validator accepts.
UsernameMaxLen == 255

LowercaseLetters ==
    {"a", "b", "c", "d", "e", "f", "g", "h", "i", "j", "k", "l", "m",
     "n", "o", "p", "q", "r", "s", "t", "u", "v", "w", "x", "y", "z"}

Digits == {"0", "1", "2", "3", "4", "5", "6", "7", "8", "9"}

AllowedChars == LowercaseLetters \cup Digits \cup {".", "_", "=", "-", "/"}

\* model::is_username_valid: non-empty, bounded length, allowed grammar only.
is_username_valid(u) ==
    /\ Len(u) > 0
    /\ Len(u) <= UsernameMaxLen
    /\ \A i \in 1..Len(u) : u[i] \in AllowedChars

\* The usernames of the handler's tests ...
Taken == <<"t", "a", "k", "e", "n">>
TakenNotTaken ==
    <<"t", "a", "k", "e", "n", "_", "n", "o", "t", "t", "a", "k", "e", "n">>
TAtKen == <<"t", "@", "k", "e", "n">>
\* ... and three more invalid ones: empty, upper case, over-long.
Empty == <<>>
UpperCase == <<"T", "a", "k", "e", "n">>
TooLong == [i \in 1..(UsernameMaxLen + 1) |-> "a"]

Usernames == {Taken, TakenNotTaken, TAtKen, Empty, UpperCase, TooLong}

\* Names the store may already hold when the server starts.
StoredUsernames == {Taken, TakenNotTaken, TAtKen}

Kinds == {"user", "guest"}

\* The body of a register request: the desired username and whether it
\* carries an auth stage proof.
Bodies == [kind : Kinds, username : Usernames, auth : {"none", "proof"}]

----------------------------------------------------------------------------
\* Responses.

NoResult == [status |-> 0, code |-> "NONE"]

InvalidUsernameError == [status |-> 400, code |-> "M_INVALID_USERNAME"]

UserInUseError == [status |-> 400, code |-> "M_USER_IN_USE"]

AvailableResponse == [status |-> 200, code |-> "AVAILABLE"]

UnknownError == [status |-> 500, code |-> "M_UNKNOWN"]

IsClientError(res) == res.status \in 400..499
IsServerError(res) == res.status \in 500..599
IsSuccess(res) == res.status \in 200..299

----------------------------------------------------------------------------
\* The Store.

\* Store::check_username_exists: the answers the store can give for u.
check_username_exists(u) ==
    {"Err", IF u \in accounts THEN "Ok(true)" ELSE "Ok(false)"}

\* ResultExt::unknown()?: a storage error becomes an M_UNKNOWN server error.
unknown(resp) == IF resp = "Err" THEN UnknownError ELSE NoResult

----------------------------------------------------------------------------
IdleReq ==
    [pc |-> "idle", op |-> "none", kind |-> "none", username |-> Empty,
     auth |-> "none", calls |-> <<>>, resp |-> "None", result |-> NoResult]

Init ==
    /\ req = [r \in Reqs |-> IdleReq]
    /\ accounts \in SUBSET StoredUsernames

----------------------------------------------------------------------------
\* get_available

\* Variant: the handler without the validation guard.
ValidationSkipped(u) == FALSE

\* The guard of the early return with M_INVALID_USERNAME.
ValidationFails(u) == ~is_username_valid(u)

\* Variant: the two branches swapped.
AvailabilityResultInverted(exists) ==
    IF exists THEN AvailableResponse ELSE UserInUseError

\* if exists { Err(USER_IN_USE) } else { Ok({"avaiable": true}) }
AvailabilityResult(exists) ==
    IF exists THEN UserInUseError ELSE AvailableResponse

\* Variant: a failed lookup read as "does not exist" (unwrap_or(false)).
LookupOutcomeErrAsAbsent(resp) == AvailabilityResult(resp = "Ok(true)")

\* let exists = storage.check_username_exists(..).await.unknown()?; if exists ..
LookupOutcome(resp) ==
    IF resp = "Err" THEN unknown(resp) ELSE AvailabilityResult(resp = "Ok(true)")

\* The request arrives; the handler validates the username and either returns
\* M_INVALID_USERNAME or issues the existence lookup and suspends on it.
GetAvailable(r, u) ==
    /\ req[r].pc = "idle"
    /\ IF ValidationFails(u)
       THEN req' = [req EXCEPT ![r] =
                [IdleReq EXCEPT !.pc = "done", !.op = "available",
                                !.username = u,
                                !.result = InvalidUsernameError]]
       ELSE req' = [req EXCEPT ![r] =
                [IdleReq EXCEPT !.pc = "await", !.op = "available",
                                !.username = u,
                                !.calls = <<"check_username_exists">>]]
    /\ UNCHANGED accounts

\* Variant: a lookup that reserves the username it found free.
CheckUsernameExistsReplyReserving(r, resp) ==
    /\ req[r].pc = "await"
    /\ resp \in check_username_exists(req[r].username)
    /\ req' = [req EXCEPT ![r].pc = "done", ![r].resp = resp,
                          ![r].result = LookupOutcome(resp)]
    /\ accounts' = IF resp = "Ok(false)"
                   THEN accounts \cup {req[r].username}
                   ELSE accounts

\* The lookup completes and the handler runs to its end.
CheckUsernameExistsReply(r, resp) ==
    /\ req[r].pc = "await"
    /\ resp \in check_username_exists(req[r].username)
    /\ req' = [req EXCEPT ![r].pc = "done", ![r].resp = resp,
                          ![r].result = LookupOutcome(resp)]
    /\ UNCHANGED accounts

----------------------------------------------------------------------------
\* post_register

\* req.kind = params.kind; println!(storage.get_type()); unimplemented!()
PostRegister(r, kind, body) ==
    /\ req[r].pc = "idle"
    /\ req' = [req EXCEPT ![r] =
             [IdleReq EXCEPT !.pc = "panicked", !.op = "register",
                             !.kind = kind,
                             !.username = body.username,
                             !.auth = body.auth,
                             !.calls = <<"get_type">>]]
    /\ UNCHANGED accounts

----------------------------------------------------------------------------
Next ==
    \E r \in Reqs :
        \/ \E u \in Usernames : GetAvailable(r, u)
        \/ \E resp \in {"Ok(true)", "Ok(false)", "Err"} :
               CheckUsernameExistsReply(r, resp)
        \/ \E kind \in Kinds, body \in Bodies : PostRegister(r, kind, body)

Spec == Init /\ [][Next]_vars

TypeOK ==
    /\ accounts \subseteq Usernames
    /\ \A r \in Reqs :
          /\ req[r].pc \in {"idle", "await", "done", "panicked"}
          /\ req[r].op \in {"none", "available", "register"}
          /\ req[r].kind \in Kinds \cup {"none"}
          /\ req[r].username \in Usernames
          /\ req[r].resp \in {"None", "Ok(true)", "Ok(false)", "Err"}

----------------------------------------------------------------------------
\* Properties of get_available.

Handled(r) == req[r].pc \in {"done", "panicked"}

\* C1: a get_available request whose username fails validation ends with
\* M_INVALID_USERNAME, a client error, and has made no call to the store
\* and received no answer from it, whatever the store holds.
InvalidUsernameBeforeStorage ==
    \A r \in Reqs :
        (req[r].op = "available" /\ ~is_username_valid(req[r].username)) =>
            /\ req[r].pc = "done"
            /\ req[r].result = InvalidUsernameError
            /\ IsClientError(req[r].result)
            /\ req[r].calls = <<>>
            /\ req[r].resp = "None"

\* An invalid username that the store holds was rejected without a lookup.
InvalidUsernameRejected ==
    \E r \in Reqs :
        /\ req[r].op = "available"
        /\ req[r].username = TAtKen
        /\ TAtKen \in accounts
        /\ req[r].pc = "done"
        /\ req[r].result = InvalidUsernameError

\* C2: a valid username that the store reports as existing is answered
\* with M_USER_IN_USE, a client error, and never with the available response.
TakenIsUserInUse ==
    \A r \in Reqs :
        (/\ req[r].op = "available"
         /\ is_username_valid(req[r].username)
         /\ req[r].resp = "Ok(true)") =>
            /\ req[r].pc = "done"
            /\ req[r].result = UserInUseError
            /\ IsClientError(req[r].result)
            /\ ~IsSuccess(req[r].result)

\* The lookup of "taken" answered true and the request has returned.
TakenRejected ==
    \E r \in Reqs :
        /\ req[r].op = "available"
        /\ req[r].username = Taken
        /\ req[r].resp = "Ok(true)"
        /\ req[r].pc = "done"
        /\ req[r].result = UserInUseError

\* A step of the get_available handler of request r.
AvailabilityStep(r) ==
    /\ req[r].pc \in {"idle", "await"}
    /\ req'[r] # req[r]
    /\ req'[r].op = "available"

\* C3: a get_available call leaves the stored accounts as they were; when
\* the store reports the valid username as not existing the answer is the
\* available response; and two calls for the same username that both got an
\* answer from the (unchanged) store return the same result.
AvailableAndStoreUnchanged ==
    [][\A r \in Reqs :
          AvailabilityStep(r) =>
              /\ accounts' = accounts
              /\ (req'[r].resp = "Ok(false)" =>
                      /\ req'[r].result = AvailableResponse
                      /\ IsSuccess(req'[r].result))
              /\ \A q \in Reqs :
                     (/\ req'[q].op = "available"
                      /\ req'[q].pc = "done"
                      /\ req'[r].pc = "done"
                      /\ req'[q].username = req'[r].username
                      /\ req'[q].resp # "Err"
                      /\ req'[r].resp # "Err") =>
                         req'[q].result = req'[r].result]_vars

\* "taken_nottaken" was looked up twice, found absent and reported
\* available both times, and is still not stored.
AvailableTwice ==
    \E r, q \in Reqs :
        /\ r # q
        /\ \A x \in {r, q} :
              /\ req[x].op = "available"
              /\ req[x].username = TakenNotTaken
              /\ req[x].resp = "Ok(false)"
              /\ req[x].pc = "done"
              /\ req[x].result = AvailableResponse
        /\ TakenNotTaken \notin accounts

\* C4: a get_available request whose lookup failed ends with a server error
\* that is neither the available response nor M_USER_IN_USE, and no request
\* makes more than one check_username_exists call.
StorageFailureIsServerError ==
    \A r \in Reqs :
        req[r].op = "available" =>
            /\ Len(SelectSeq(req[r].calls,
                             LAMBDA c : c = "check_username_exists")) <= 1
            /\ req[r].resp = "Err" =>
                   /\ req[r].pc = "done"
                   /\ IsServerError(req[r].result)
                   /\ req[r].result \notin {AvailableResponse, UserInUseError}

\* A lookup failed and the request has returned the M_UNKNOWN error.
StorageFailureReturned ==
    \E r \in Reqs :
        /\ req[r].op = "available"
        /\ req[r].resp = "Err"
        /\ req[r].pc = "done"
        /\ req[r].result = UnknownError
        /\ req[r].calls = <<"check_username_exists">>

----------------------------------------------------------------------------
\* Properties of post_register.

\* C5: every register request, of either kind and with any body, ends by
\* returning a response: it never panics.
RegisterAlwaysReturns ==
    \A r \in Reqs :
        req[r].op = "register" =>
            /\ req[r].pc # "panicked"
            /\ (Handled(r) => req[r].result # NoResult)

\* C8: a user-kind register for a valid, free username that carries no
\* stage proof (so that its auth session is not completed) returns the
\* auth-incomplete response.
RegisterWithoutAuthIsIncomplete ==
    \A r \in Reqs :
        (/\ req[r].op = "register"
         /\ req[r].kind = "user"
         /\ is_username_valid(req[r].username)
         /\ req[r].username \notin accounts
         /\ req[r].auth = "none"
         /\ Handled(r)) =>
            /\ req[r].pc = "done"
            /\ req[r].result.code = "AUTH_INCOMPLETE"

\* C9: a guest-kind register makes no availability lookup and returns a
\* success response (carrying the generated identifier), whatever username
\* the body supplied.
GuestRegisterSucceeds ==
    \A r \in Reqs :
        (req[r].op = "register" /\ req[r].kind = "guest" /\ Handled(r)) =>
            /\ \A i \in 1..Len(req[r].calls) :
                   req[r].calls[i] # "check_username_exists"
            /\ req[r].pc = "done"
            /\ IsSuccess(req[r].result)

\* C10: a user-kind register for a valid, free username that submits a
\* stage proof is answered with the auth-incomplete response (the remaining
\* flows) or with success, never with an error.
StageSubmissionAnswered ==
    \A r \in Reqs :
        (/\ req[r].op = "register"
         /\ req[r].kind = "user"
         /\ is_username_valid(req[r].username)
         /\ req[r].username \notin accounts
         /\ req[r].auth = "proof"
         /\ Handled(r)) =>
            /\ req[r].pc = "done"
            /\ req[r].result.code \in {"AUTH_INCOMPLETE", "SUCCESS"}

====
